---- MODULE Spec2Model ----
(***************************************************************************)
(* impact-rs: collision queries between rays and axis-aligned rectangles,  *)
(* and swept tests of a moving rectangle, over the 16.16 fixed-point       *)
(* scalar fixed32::Fp.                                                     *)
(*                                                                         *)
(* The six public functions of src/src/lib.rs are pure.  They are modelled *)
(* as operators; the state machine draws the arguments of a query when it  *)
(* starts and has one action per public function, which stores the value   *)
(* the function returns and the divisors of the divisions it evaluated.    *)
(*                                                                         *)
(* An Fp is modelled by its raw i32 (value * 65536).  fixed32 and           *)
(* fixed32_math are external crates: their operators are modelled by what  *)
(* a 16.16 scalar computes through an i64 intermediate, with Rust's `/`    *)
(* truncating toward zero and `as i32` keeping the low 32 bits.            *)
(***************************************************************************)
EXTENDS Integers, FiniteSets, Sequences, TLC

VARIABLES origin, target, delta, called, result, divisors

vars == <<origin, target, delta, called, result, divisors>>

(***************************************************************************)
(* Bounds of the model, in whole units (1 unit = Fp::one()).               *)
(***************************************************************************)
MaxPos == 1
MaxSize == 1
MaxDelta == 1

(***************************************************************************)
(* fixed32::Fp                                                             *)
(***************************************************************************)
One == 65536
FpMax == 2147483647
FpMin == (0 - FpMax) - 1

Abs(n) == IF n < 0 THEN -n ELSE n
Sign(n) == IF n < 0 THEN -1 ELSE 1

\* `as i32`: the low 32 bits, two's complement.  TLC's integers are 32 bits
\* wide themselves, so 2^32 is subtracted or added in parts.
Wrap32(n) ==
    IF n >= FpMin /\ n <= FpMax THEN n
    ELSE IF n > FpMax THEN (n - FpMax) - FpMax - 2
    ELSE (n + FpMax) + FpMax + 2

\* Rust integer division: the quotient truncated toward zero.
TruncDiv(a, b) == Sign(a) * Sign(b) * (Abs(a) \div Abs(b))

FpAdd(a, b) == Wrap32(a + b)
FpSub(a, b) == Wrap32(a - b)

\* floor(p * q / 65536) for 0 <= p, q, computed limb by limb so that no
\* intermediate product leaves 32 bits.
MulShift(p, q) ==
    LET ph == p \div One
        pl == p % One
        qh == q \div One
        ql == q % One
        p1 == pl \div 256
        p0 == pl % 256
    IN  ph * qh * One + ph * ql + pl * qh
          + ((p1 * ql + ((p0 * ql) \div 256)) \div 256)

\* Fp * Fp: ((a as i64 * b as i64) / 65536) as i32.
FpMul(a, b) ==
    IF a = 0 \/ b = 0 THEN 0
    ELSE Wrap32(Sign(a) * Sign(b) * MulShift(Abs(a), Abs(b)))

\* floor(p * 65536 / q) for 0 <= p, 0 < q < 2^23, by long division.
ShiftDiv(p, q) ==
    LET q0 == p \div q
        r0 == p % q
        q1 == (r0 * 256) \div q
        r1 == (r0 * 256) % q
        q2 == (r1 * 256) \div q
    IN  q0 * One + q1 * 256 + q2

\* Fp / Fp: ((a as i64 * 65536) / b as i64) as i32.  With b = 0 the Rust
\* division panics; the model yields 0 there and the divisor is recorded in
\* `divisors` by the action that evaluated the division.
FpDiv(a, b) ==
    IF b = 0 THEN 0
    ELSE Wrap32(Sign(a) * Sign(b) * ShiftDiv(Abs(a), Abs(b)))

\* Fp / integer literal, as in `origin.size / 2`.
FpDivInt(a, n) == IF n = 0 THEN 0 ELSE TruncDiv(a, n)

FpMinOf(a, b) == IF a <= b THEN a ELSE b
FpMaxOf(a, b) == IF a >= b THEN a ELSE b

\* Fp::from(i16)
FromInt(n) == n * One

\* Fp::from(f32) of the decimal num / den, 0 < den: (value * 65536.0) as i32.
FromDecimal(num, den) == Sign(num) * ShiftDiv(Abs(num), den)

(***************************************************************************)
(* fixed32_math::Vector and Rect                                           *)
(***************************************************************************)
Vec(x, y) == [x |-> x, y |-> y]
MkRect(px, py, sx, sy) == [pos |-> Vec(px, py), size |-> Vec(sx, sy)]

VecZero == Vec(0, 0)
VecUp == Vec(0, One)
VecDown == Vec(0, -One)
VecLeft == Vec(-One, 0)
VecRight == Vec(One, 0)

VecAdd(a, b) == Vec(FpAdd(a.x, b.x), FpAdd(a.y, b.y))
VecSub(a, b) == Vec(FpSub(a.x, b.x), FpSub(a.y, b.y))
VecDivInt(a, n) == Vec(FpDivInt(a.x, n), FpDivInt(a.y, n))
\* Fp * Vector
ScaleVec(t, v) == Vec(FpMul(t, v.x), FpMul(t, v.y))

(***************************************************************************)
(* Results                                                                 *)
(***************************************************************************)
\* Option<RayIntersectionResult>
NoHit ==
    [some |-> FALSE, contact_point |-> VecZero, contact_normal |-> VecZero,
     closest_time |-> 0]
SomeHit(point, normal, time) ==
    [some |-> TRUE, contact_point |-> point, contact_normal |-> normal,
     closest_time |-> time]

\* Option<Fp>
NoTime == [some |-> FALSE, time |-> 0]
SomeTime(t) == [some |-> TRUE, time |-> t]

(***************************************************************************)
(* ray_vs_rect                                                             *)
(***************************************************************************)
\* One component of inverted_direction: its value, and the divisor of the
\* division it evaluates, if it evaluates one.
InvertedComponent(d) ==
    IF d # 0 THEN [value |-> FpDiv(One, d), divisors |-> {d}]
    ELSE [value |-> 0, divisors |-> {}]

\* One `match ray_direction.<axis>.cmp(&Fp::zero())` block: the entry and exit
\* time on one axis, or a miss when the ray is parallel to the axis and its
\* coordinate is outside the rectangle's extent.
AxisTimes(d, o, lo, size, inv) ==
    IF d > 0 THEN
        [miss |-> FALSE,
         near |-> FpMul(FpSub(lo, o), inv),
         far |-> FpMul(FpSub(FpAdd(lo, size), o), inv)]
    ELSE IF d < 0 THEN
        [miss |-> FALSE,
         near |-> FpMul(FpSub(FpAdd(lo, size), o), inv),
         far |-> FpMul(FpSub(lo, o), inv)]
    ELSE IF o < lo \/ o > FpAdd(lo, size) THEN
        [miss |-> TRUE, near |-> 0, far |-> 0]
    ELSE
        [miss |-> FALSE, near |-> FpMin, far |-> FpMax]

\* "Sort distances": swap near and far when near > far.
SortTimes(t) ==
    IF t.near > t.far THEN [miss |-> t.miss, near |-> t.far, far |-> t.near]
    ELSE t

\* The sorted per-axis times of a ray that has a direction.
TimesX(ray_origin, ray_direction, tgt) ==
    SortTimes(AxisTimes(ray_direction.x, ray_origin.x, tgt.pos.x, tgt.size.x,
                        InvertedComponent(ray_direction.x).value))
TimesY(ray_origin, ray_direction, tgt) ==
    SortTimes(AxisTimes(ray_direction.y, ray_origin.y, tgt.pos.y, tgt.size.y,
                        InvertedComponent(ray_direction.y).value))

\* ContactNormal with the tie resolved to the sum of both axes' normals.
ContactNormalDiagonalTie(near_x, near_y, ray_direction) ==
    IF near_x > near_y THEN
        (IF ray_direction.x > 0 THEN VecRight ELSE VecLeft)
    ELSE IF near_x < near_y THEN
        (IF ray_direction.y > 0 THEN VecUp ELSE VecDown)
    ELSE VecAdd(IF ray_direction.x > 0 THEN VecRight ELSE VecLeft,
                IF ray_direction.y > 0 THEN VecUp ELSE VecDown)

\* ContactNormal with the direction tests of the two axes exchanged.
ContactNormalCrossedAxes(near_x, near_y, ray_direction) ==
    IF near_x > near_y THEN
        (IF ray_direction.y > 0 THEN VecRight ELSE VecLeft)
    ELSE IF near_x < near_y THEN
        (IF ray_direction.x > 0 THEN VecUp ELSE VecDown)
    ELSE VecZero

\* The `match time_near.x.cmp(&time_near.y)` block.
ContactNormal(near_x, near_y, ray_direction) ==
    IF near_x > near_y THEN
        (IF ray_direction.x > 0 THEN VecRight ELSE VecLeft)
    ELSE IF near_x < near_y THEN
        (IF ray_direction.y > 0 THEN VecUp ELSE VecDown)
    ELSE VecZero

\* IsZeroDirection with the check left out.
IsZeroDirectionUnchecked(ray_direction) == FALSE

\* The early return of a zero-length ray.
IsZeroDirection(ray_direction) == ray_direction.x = 0 /\ ray_direction.y = 0

\* SlabRejects without the rejection of a rectangle behind the ray origin.
SlabRejectsNoBehind(tx, ty) ==
    \/ tx.near >= ty.far
    \/ ty.near >= tx.far

\* The two rejections after the sort: the axis intervals do not overlap, or
\* the rectangle is behind the ray origin.
SlabRejects(tx, ty) ==
    \/ tx.near >= ty.far
    \/ ty.near >= tx.far
    \/ FpMinOf(tx.far, ty.far) < 0

\* ClosestTime clamped to the window [0, 1].
ClosestTimeClamped(tx, ty) ==
    FpMinOf(FpMaxOf(FpMaxOf(tx.near, ty.near), 0), One)

\* closest_time
ClosestTime(tx, ty) == FpMaxOf(tx.near, ty.near)

ray_vs_rect(ray_origin, ray_direction, tgt) ==
    IF IsZeroDirection(ray_direction) THEN NoHit
    ELSE
        LET tx == TimesX(ray_origin, ray_direction, tgt)
            ty == TimesY(ray_origin, ray_direction, tgt)
        IN  IF tx.miss \/ ty.miss THEN NoHit
            ELSE IF SlabRejects(tx, ty) THEN NoHit
            ELSE
                LET closest_time == ClosestTime(tx, ty)
                IN  SomeHit(VecAdd(ray_origin, ScaleVec(closest_time, ray_direction)),
                            ContactNormal(tx.near, ty.near, ray_direction),
                            closest_time)

ray_vs_rect_divisors(ray_origin, ray_direction, tgt) ==
    IF IsZeroDirection(ray_direction) THEN {}
    ELSE InvertedComponent(ray_direction.x).divisors
           \cup InvertedComponent(ray_direction.y).divisors

(***************************************************************************)
(* Axis queries                                                            *)
(***************************************************************************)
ray_vs_rect_vertical_time(ray_origin, ray_length_in_y, target_rect) ==
    IF ray_length_in_y = 0 THEN NoTime
    ELSE IF \/ ray_origin.x < target_rect.pos.x
            \/ ray_origin.x > FpAdd(target_rect.pos.x, target_rect.size.x)
    THEN NoTime
    ELSE IF ray_length_in_y > 0 THEN
        SomeTime(FpDiv(FpSub(target_rect.pos.y, ray_origin.y), ray_length_in_y))
    ELSE
        SomeTime(FpDiv(FpSub(FpAdd(target_rect.pos.y, target_rect.size.y),
                             ray_origin.y),
                       ray_length_in_y))

\* ray_vs_rect_horizontal_time without the check of a zero length.
ray_vs_rect_horizontal_time_unchecked(ray_origin, ray_length_in_x, target_rect) ==
    IF \/ ray_origin.y < target_rect.pos.y
       \/ ray_origin.y >= FpAdd(target_rect.pos.y, target_rect.size.y)
    THEN NoTime
    ELSE IF ray_length_in_x > 0 THEN
        SomeTime(FpDiv(FpSub(target_rect.pos.x, ray_origin.x), ray_length_in_x))
    ELSE
        SomeTime(FpDiv(FpSub(FpAdd(target_rect.pos.x, target_rect.size.x),
                             ray_origin.x),
                       ray_length_in_x))

ray_vs_rect_horizontal_time(ray_origin, ray_length_in_x, target_rect) ==
    IF ray_length_in_x = 0 THEN NoTime
    ELSE IF \/ ray_origin.y < target_rect.pos.y
            \/ ray_origin.y >= FpAdd(target_rect.pos.y, target_rect.size.y)
    THEN NoTime
    ELSE IF ray_length_in_x > 0 THEN
        SomeTime(FpDiv(FpSub(target_rect.pos.x, ray_origin.x), ray_length_in_x))
    ELSE
        SomeTime(FpDiv(FpSub(FpAdd(target_rect.pos.x, target_rect.size.x),
                             ray_origin.x),
                       ray_length_in_x))

\* An axis query divides exactly when it gets past its two early returns,
\* which is when it returns a time; the divisor is the axis length.
AxisDivisors(maybe_time, ray_length) ==
    IF maybe_time.some THEN {ray_length} ELSE {}

(***************************************************************************)
(* Swept tests                                                             *)
(***************************************************************************)
\* AcceptTime with the upper end of the window included.
AcceptTimeInclusive(time) == time >= 0 /\ time <= One

\* The acceptance window of the three swept functions.
AcceptTime(time) == time >= 0 /\ time < One

\* The divisor of `origin.size / 2`.
HalfDivisor == 2

swept_rect_vs_rect(org, tgt, dlt) ==
    LET expanded_target ==
            [pos |-> VecSub(tgt.pos, VecDivInt(org.size, HalfDivisor)),
             size |-> VecAdd(tgt.size, org.size)]
        origin_point == VecAdd(org.pos, org.size)
        maybe_intersected == ray_vs_rect(origin_point, dlt, expanded_target)
    IN  IF maybe_intersected.some /\ AcceptTime(maybe_intersected.closest_time)
        THEN maybe_intersected
        ELSE NoHit

swept_rect_vs_rect_divisors(org, tgt, dlt) ==
    {HalfDivisor} \cup
    ray_vs_rect_divisors(VecAdd(org.pos, org.size), dlt,
        [pos |-> VecSub(tgt.pos, VecDivInt(org.size, HalfDivisor)),
         size |-> VecAdd(tgt.size, org.size)])

\* VerticalSweepQuery routed through the horizontal axis query.
VerticalSweepQueryMisrouted(org, tgt, y_delta) ==
    ray_vs_rect_horizontal_time(VecAdd(org.pos, org.size), y_delta,
        [pos |-> tgt.pos, size |-> VecAdd(tgt.size, org.size)])

\* The axis query swept_rect_vs_rect_vertical_time delegates to.
VerticalSweepQuery(org, tgt, y_delta) ==
    ray_vs_rect_vertical_time(VecAdd(org.pos, org.size), y_delta,
        [pos |-> tgt.pos, size |-> VecAdd(tgt.size, org.size)])

swept_rect_vs_rect_vertical_time(org, tgt, y_delta) ==
    LET maybe_intersected == VerticalSweepQuery(org, tgt, y_delta)
    IN  IF maybe_intersected.some /\ AcceptTime(maybe_intersected.time)
        THEN maybe_intersected
        ELSE NoTime

\* The axis query swept_rect_vs_rect_horizontal_time delegates to.
HorizontalSweepQuery(org, tgt, x_delta) ==
    ray_vs_rect_horizontal_time(VecAdd(org.pos, org.size), x_delta,
        [pos |-> tgt.pos, size |-> VecAdd(tgt.size, org.size)])

swept_rect_vs_rect_horizontal_time(org, tgt, x_delta) ==
    LET maybe_intersected == HorizontalSweepQuery(org, tgt, x_delta)
    IN  IF maybe_intersected.some /\ AcceptTime(maybe_intersected.time)
        THEN maybe_intersected
        ELSE NoTime

(***************************************************************************)
(* The arguments a query is made with                                      *)
(***************************************************************************)
Positions == {FromInt(n) : n \in 0..MaxPos}
Sizes == {FromInt(n) : n \in 0..MaxSize}
Deltas == {FromInt(n) : n \in (0 - MaxDelta)..MaxDelta}

GridRects(P) == {MkRect(px, py, sx, sy) : px \in P, py \in P, sx \in Sizes, sy \in Sizes}

GridInputs ==
    [origin : GridRects(Positions), target : GridRects(Positions),
     delta : {Vec(dx, dy) : dx \in Deltas, dy \in Deltas}]

Input(ox, oy, ow, oh, tx, ty, tw, th, dx, dy) ==
    [origin |-> MkRect(FromInt(ox), FromInt(oy), FromInt(ow), FromInt(oh)),
     target |-> MkRect(FromInt(tx), FromInt(ty), FromInt(tw), FromInt(th)),
     delta |-> Vec(FromInt(dx), FromInt(dy))]

\* test_ray_vs_rect: ray origin (1, 2), direction (3, 4), target (5, 6, 7, 8).
ReferenceInput == Input(1, 2, 0, 0, 5, 6, 7, 8, 3, 4)

\* The arguments of the examples in the functions' documentation.
ExampleInputs ==
    {Input(0, 0, 10, 10, 5, 5, 10, 10, 15, 15),
     Input(0, 0, 0, 0, 5, 5, 10, 10, 1, 1),
     Input(0, 0, 10, 10, 5, 15, 10, 10, 0, 20),
     Input(5, 0, 0, 0, 0, 5, 10, 10, 0, 10),
     Input(0, 0, 10, 10, 15, 5, 10, 10, 20, 0),
     Input(0, 5, 0, 0, 5, 0, 10, 10, 10, 0)}

Inputs == GridInputs \cup {ReferenceInput} \cup ExampleInputs

(***************************************************************************)
(* The state machine                                                       *)
(***************************************************************************)
Init ==
    /\ \E i \in Inputs :
          /\ origin = i.origin
          /\ target = i.target
          /\ delta = i.delta
    /\ called = "none"
    /\ result = NoHit
    /\ divisors = {}

Call_ray_vs_rect ==
    /\ called' = "ray_vs_rect"
    /\ result' = ray_vs_rect(origin.pos, delta, target)
    /\ divisors' = ray_vs_rect_divisors(origin.pos, delta, target)
    /\ UNCHANGED <<origin, target, delta>>

Call_swept_rect_vs_rect ==
    /\ called' = "swept_rect_vs_rect"
    /\ result' = swept_rect_vs_rect(origin, target, delta)
    /\ divisors' = swept_rect_vs_rect_divisors(origin, target, delta)
    /\ UNCHANGED <<origin, target, delta>>

Call_ray_vs_rect_vertical_time ==
    /\ called' = "ray_vs_rect_vertical_time"
    /\ result' = ray_vs_rect_vertical_time(origin.pos, delta.y, target)
    /\ divisors' = AxisDivisors(result', delta.y)
    /\ UNCHANGED <<origin, target, delta>>

Call_ray_vs_rect_horizontal_time ==
    /\ called' = "ray_vs_rect_horizontal_time"
    /\ result' = ray_vs_rect_horizontal_time(origin.pos, delta.x, target)
    /\ divisors' = AxisDivisors(result', delta.x)
    /\ UNCHANGED <<origin, target, delta>>

Call_swept_rect_vs_rect_vertical_time ==
    /\ called' = "swept_rect_vs_rect_vertical_time"
    /\ result' = swept_rect_vs_rect_vertical_time(origin, target, delta.y)
    /\ divisors' = AxisDivisors(VerticalSweepQuery(origin, target, delta.y), delta.y)
    /\ UNCHANGED <<origin, target, delta>>

Call_swept_rect_vs_rect_horizontal_time ==
    /\ called' = "swept_rect_vs_rect_horizontal_time"
    /\ result' = swept_rect_vs_rect_horizontal_time(origin, target, delta.x)
    /\ divisors' = AxisDivisors(HorizontalSweepQuery(origin, target, delta.x), delta.x)
    /\ UNCHANGED <<origin, target, delta>>

Next ==
    \/ Call_ray_vs_rect
    \/ Call_swept_rect_vs_rect
    \/ Call_ray_vs_rect_vertical_time
    \/ Call_ray_vs_rect_horizontal_time
    \/ Call_swept_rect_vs_rect_vertical_time
    \/ Call_swept_rect_vs_rect_horizontal_time

Spec == Init /\ [][Next]_vars

(***************************************************************************)
(* Properties                                                              *)
(***************************************************************************)
\* The ray origin every swept function casts from: origin.pos + origin.size.
SweepPoint == Vec(origin.pos.x + origin.size.x, origin.pos.y + origin.size.y)

\* The target grown by the mover's size, anchored at target.pos.
GrownTarget ==
    [pos |-> target.pos,
     size |-> Vec(target.size.x + origin.size.x, target.size.y + origin.size.y)]

\* The target grown by the mover's size, anchored at target.pos - origin.size/2.
GrownShiftedTarget ==
    [pos |-> Vec(target.pos.x - TruncDiv(origin.size.x, 2),
                 target.pos.y - TruncDiv(origin.size.y, 2)),
     size |-> GrownTarget.size]

InWindow(t) == 0 <= t /\ t < One

\* C1: swept_rect_vs_rect returns Some(r) exactly when ray_vs_rect, cast from
\* origin.pos + origin.size along delta at the rectangle
\* {target.pos - origin.size/2, target.size + origin.size}, returns Some(r)
\* with 0 <= r.closest_time < 1, and then it returns r itself; in every other
\* case it returns None.
C1_SweptFiltersRayResult ==
    called = "swept_rect_vs_rect" =>
        LET hit == ray_vs_rect(SweepPoint, delta, GrownShiftedTarget)
        IN  IF hit.some /\ InWindow(hit.closest_time)
            THEN result = hit
            ELSE result = NoHit

\* A swept test whose ray hit is rejected only because its time is exactly 1.
C1_Witness ==
    /\ called = "swept_rect_vs_rect"
    /\ ~result.some
    /\ LET hit == ray_vs_rect(SweepPoint, delta, GrownShiftedTarget)
       IN  hit.some /\ hit.closest_time = One

\* The moving rectangle against the target, in whole units and exact
\* arithmetic.  At time k / TimeSteps the mover is origin translated by
\* (k / TimeSteps) * delta; all coordinates are scaled by TimeSteps.  Every
\* time at which the overlap on an axis starts or ends is a multiple of
\* 2 / TimeSteps, so the overlap holds at some time of [0, 1) iff it holds
\* at some k / TimeSteps with 0 <= k < TimeSteps.
Units(v) == TruncDiv(v, One)
NonZero(n) == IF n = 0 THEN 1 ELSE Abs(n)
TimeSteps == 2 * NonZero(Units(delta.x)) * NonZero(Units(delta.y))

AxisOverlapAt(k, o, w, d, t, tw, strict) ==
    LET lo == Units(o) * TimeSteps + k * Units(d)
        hi == lo + Units(w) * TimeSteps
        tlo == Units(t) * TimeSteps
        thi == tlo + Units(tw) * TimeSteps
    IN  IF strict THEN lo < thi /\ tlo < hi ELSE lo <= thi /\ tlo <= hi

OverlapAt(k, strict) ==
    /\ AxisOverlapAt(k, origin.pos.x, origin.size.x, delta.x,
                     target.pos.x, target.size.x, strict)
    /\ AxisOverlapAt(k, origin.pos.y, origin.size.y, delta.y,
                     target.pos.y, target.size.y, strict)

OverlapsDuringMove(strict) == \E k \in 0..(TimeSteps - 1) : OverlapAt(k, strict)

\* C2: swept_rect_vs_rect returns Some whenever the origin rectangle
\* translated by t * delta overlaps the target for some t in [0, 1), and None
\* when it overlaps the target for no t in [0, 1).  (Stated in its weakest
\* reading: a shared interior forces Some, and Some needs at least a touch.)
C2_SweptIsMovingRectTest ==
    called = "swept_rect_vs_rect" =>
        /\ OverlapsDuringMove(TRUE) => result.some
        /\ result.some => OverlapsDuringMove(FALSE)

UnitNormals == {VecUp, VecDown, VecLeft, VecRight, VecZero}

\* C3: whenever ray_vs_rect, and hence swept_rect_vs_rect, returns Some(r),
\* r.contact_normal is one of up, down, left, right and zero.
C3_NormalIsAxisUnitOrZero ==
    (called \in {"ray_vs_rect", "swept_rect_vs_rect"} /\ result.some)
        => result.contact_normal \in UnitNormals

\* A corner hit: both entry times are equal and the normal is left zero.
C3_Witness ==
    /\ called = "ray_vs_rect"
    /\ result.some
    /\ delta.x # 0
    /\ delta.y # 0
    /\ result.contact_normal = VecZero

\* A ray with exactly one zero direction component.
OneAxisRay == (delta.x = 0) # (delta.y = 0)

\* Its coordinate on the axis it does not move along is within the closed
\* extent of the target on that axis.
FixedCoordinateInExtent ==
    IF delta.x = 0
    THEN target.pos.x <= origin.pos.x /\ origin.pos.x <= target.pos.x + target.size.x
    ELSE target.pos.y <= origin.pos.y /\ origin.pos.y <= target.pos.y + target.size.y

\* The time at which the ray leaves the target's extent on the axis it moves
\* along: (far boundary - origin) * (1 / direction).
MovingAxisExitTime ==
    LET d == IF delta.x # 0 THEN delta.x ELSE delta.y
        o == IF delta.x # 0 THEN origin.pos.x ELSE origin.pos.y
        lo == IF delta.x # 0 THEN target.pos.x ELSE target.pos.y
        size == IF delta.x # 0 THEN target.size.x ELSE target.size.y
        boundary == IF d > 0 THEN lo + size ELSE lo
    IN  FpMul(boundary - o, FpDiv(One, d))

\* C4 as claimed: for a direction with exactly one zero component,
\* ray_vs_rect returns Some if and only if the origin's coordinate on the
\* zero-movement axis lies within the target's extent on that axis.
C4_AcceptedIffInExtent ==
    (called = "ray_vs_rect" /\ OneAxisRay)
        => (result.some <=> FixedCoordinateInExtent)

\* C4 as amended: for a direction with exactly one zero component and a target
\* of non-negative size, ray_vs_rect returns None whenever the origin's
\* coordinate on the zero-movement axis is outside the closed extent
\* [pos, pos + size] of the target on that axis, whatever the other axis; and
\* when it is inside, it returns Some if and only if the exit time on the
\* moving axis is not negative (the target is not behind the ray origin).
C4_AcceptedIffInExtentAndNotBehind ==
    (called = "ray_vs_rect" /\ OneAxisRay)
        => (result.some <=> (FixedCoordinateInExtent /\ MovingAxisExitTime >= 0))

\* A one-axis ray inside the extent whose target is behind it: rejected.
C4_Witness ==
    /\ called = "ray_vs_rect"
    /\ OneAxisRay
    /\ FixedCoordinateInExtent
    /\ MovingAxisExitTime < 0
    /\ ~result.some

\* C5: both axis queries use the same half-open orthogonal bound check:
\* ray_vs_rect_horizontal_time returns None exactly when ray_length_in_x is
\* zero or ray_origin.y is outside [target.pos.y, target.pos.y + target.size.y),
\* and ray_vs_rect_vertical_time returns None exactly when ray_length_in_y is
\* zero or ray_origin.x is outside [target.pos.x, target.pos.x + target.size.x).
C5_BothAxisQueriesHalfOpen ==
    /\ called = "ray_vs_rect_horizontal_time" =>
          (~result.some <=>
              \/ delta.x = 0
              \/ origin.pos.y < target.pos.y
              \/ origin.pos.y >= target.pos.y + target.size.y)
    /\ called = "ray_vs_rect_vertical_time" =>
          (~result.some <=>
              \/ delta.y = 0
              \/ origin.pos.x < target.pos.x
              \/ origin.pos.x >= target.pos.x + target.size.x)

\* ray_vs_rect on the grown target, filtered to [0, 1) and projected to a time.
RayTimeInWindow(direction) ==
    LET hit == ray_vs_rect(SweepPoint, direction, GrownTarget)
    IN  IF hit.some /\ InWindow(hit.closest_time)
        THEN SomeTime(hit.closest_time)
        ELSE NoTime

\* C6: swept_rect_vs_rect_horizontal_time agrees with ray_vs_rect applied to
\* the same grown rectangle, the same ray origin and the direction (dx, 0),
\* filtered to 0 <= t < 1: both are None together, and when both are Some the
\* times are equal; likewise swept_rect_vs_rect_vertical_time with (0, dy).
C6_AxisSweptAgreesWithRay ==
    /\ called = "swept_rect_vs_rect_horizontal_time" =>
          LET ray == RayTimeInWindow(Vec(delta.x, 0))
          IN  /\ result.some = ray.some
              /\ result.some => result.time = ray.time
    /\ called = "swept_rect_vs_rect_vertical_time" =>
          LET ray == RayTimeInWindow(Vec(0, delta.y))
          IN  /\ result.some = ray.some
              /\ result.some => result.time = ray.time

\* C7: a zero-length ray yields no intersection: ray_vs_rect returns None for
\* the direction (0, 0), each axis query returns None for a zero length, and
\* each swept function returns None for a zero delta.
C7_ZeroLengthRayMisses ==
    /\ (called \in {"ray_vs_rect", "swept_rect_vs_rect"} /\ delta = VecZero)
          => ~result.some
    /\ (called \in {"ray_vs_rect_horizontal_time",
                    "swept_rect_vs_rect_horizontal_time"} /\ delta.x = 0)
          => ~result.some
    /\ (called \in {"ray_vs_rect_vertical_time",
                    "swept_rect_vs_rect_vertical_time"} /\ delta.y = 0)
          => ~result.some

\* A zero-length ray that starts on a zero-size target.
C7_Witness ==
    /\ called = "ray_vs_rect"
    /\ delta = VecZero
    /\ target.size = VecZero
    /\ origin.pos = target.pos
    /\ ~result.some

\* C8: no call of the six functions evaluates a division whose divisor is zero.
C8_NoDivisionByZero == 0 \notin divisors

\* A ray with one zero direction component: only the other one is divided by.
C8_Witness ==
    /\ called = "ray_vs_rect"
    /\ delta.x = 0
    /\ delta.y # 0
    /\ divisors = {delta.y}

IsReference ==
    /\ origin.pos = ReferenceInput.origin.pos
    /\ target = ReferenceInput.target
    /\ delta = ReferenceInput.delta

\* C9: ray_vs_rect does not clamp closest_time to [0, 1).  For ray origin
\* (1, 2), direction (3, 4) and target (5, 6, 7, 8) it returns Some with
\* closest_time the fixed-point value of 1.33332, which is (5 - 1) times the
\* fixed-point reciprocal of 3 and exceeds 1; and whenever the slab test
\* succeeds it returns the later entry time as it is, negative or >= 1 or not.
C9_RayVsRectDoesNotClamp ==
    called = "ray_vs_rect" =>
        /\ IsReference =>
              /\ result.some
              /\ result.closest_time = FromDecimal(133332, 100000)
              /\ result.closest_time = FpMul(FromInt(5 - 1), FpDiv(One, FromInt(3)))
              /\ result.closest_time > One
        /\ ~IsZeroDirection(delta) =>
              LET tx == TimesX(origin.pos, delta, target)
                  ty == TimesY(origin.pos, delta, target)
              IN  /\ result.some <=> (~tx.miss /\ ~ty.miss /\ ~SlabRejects(tx, ty))
                  /\ result.some =>
                        result.closest_time = FpMaxOf(tx.near, ty.near)

\* The reference scenario: the hit at 87380 / 65536.
C9_Witness ==
    /\ called = "ray_vs_rect"
    /\ IsReference
    /\ result.some
    /\ result.closest_time = 87380

\* C10: each axis-restricted swept function delegates to the axis query of
\* its own axis: swept_rect_vs_rect_vertical_time equals
\* ray_vs_rect_vertical_time(origin.pos + origin.size, dy,
\* {target.pos, target.size + origin.size}) when that time is in [0, 1) and
\* None otherwise, and swept_rect_vs_rect_horizontal_time equals
\* ray_vs_rect_horizontal_time on the same ray origin and rectangle under the
\* same filter.
C10_AxisSweptDelegatesToOwnAxis ==
    /\ called = "swept_rect_vs_rect_vertical_time" =>
          LET q == ray_vs_rect_vertical_time(SweepPoint, delta.y, GrownTarget)
          IN  result = IF q.some /\ InWindow(q.time) THEN q ELSE NoTime
    /\ called = "swept_rect_vs_rect_horizontal_time" =>
          LET q == ray_vs_rect_horizontal_time(SweepPoint, delta.x, GrownTarget)
          IN  result = IF q.some /\ InWindow(q.time) THEN q ELSE NoTime

\* A vertical sweep that hits strictly inside the window and that the
\* horizontal query would have rejected.
C10_Witness ==
    /\ called = "swept_rect_vs_rect_vertical_time"
    /\ result.some
    /\ result.time > 0
    /\ ~ray_vs_rect_horizontal_time(SweepPoint, delta.y, GrownTarget).some

\* The sorted entry time of a ray on one axis: the earlier of the times at
\* which it reaches the two boundaries of the extent, or the MIN sentinel on
\* an axis the ray does not move along.
EntryTime(d, o, lo, size) ==
    IF d = 0 THEN FpMin
    ELSE FpMinOf(FpMul(lo - o, FpDiv(One, d)),
                 FpMul(lo + size - o, FpDiv(One, d)))

EntryTimeX == EntryTime(delta.x, origin.pos.x, target.pos.x, target.size.x)
EntryTimeY == EntryTime(delta.y, origin.pos.y, target.pos.y, target.size.y)

\* C11: whenever ray_vs_rect returns Some(r), with time_near the per-axis
\* sorted entry times (MIN on a zero-direction axis): r.closest_time is
\* max(time_near.x, time_near.y); r.contact_point is
\* ray_origin + r.closest_time * ray_direction; r.contact_normal is right or
\* left (by ray_direction.x > 0 or not) when time_near.x > time_near.y, up or
\* down (by ray_direction.y > 0 or not) when time_near.y > time_near.x, and
\* zero exactly when the two are equal; so a ray with one zero direction
\* component never gets a normal along the axis it does not move along.
C11_HitFieldsFromEntryTimes ==
    (called = "ray_vs_rect" /\ result.some) =>
        /\ result.closest_time =
              (IF EntryTimeX >= EntryTimeY THEN EntryTimeX ELSE EntryTimeY)
        /\ result.contact_point =
              Vec(origin.pos.x + FpMul(result.closest_time, delta.x),
                  origin.pos.y + FpMul(result.closest_time, delta.y))
        /\ EntryTimeX > EntryTimeY =>
              result.contact_normal = (IF delta.x > 0 THEN VecRight ELSE VecLeft)
        /\ EntryTimeY > EntryTimeX =>
              result.contact_normal = (IF delta.y > 0 THEN VecUp ELSE VecDown)
        /\ (result.contact_normal = VecZero) <=> (EntryTimeX = EntryTimeY)
        /\ delta.x = 0 => result.contact_normal \in {VecUp, VecDown}
        /\ delta.y = 0 => result.contact_normal \in {VecLeft, VecRight}

\* A ray moving left only that hits: its normal is left, along the x axis,
\* and the y entry time is the MIN sentinel.
C11_Witness ==
    /\ called = "ray_vs_rect"
    /\ result.some
    /\ delta.x < 0
    /\ delta.y = 0
    /\ EntryTimeY = FpMin
    /\ result.closest_time = EntryTimeX
    /\ result.contact_normal = VecLeft

====
